---- MODULE Spec2Model ----
(***************************************************************************)
(* Infrastructure Dependency Cascade Engine                                *)
(* (src/src/services/infrastructure-cascade.ts).                           *)
(*                                                                         *)
(* Numbers.  Capacity shares, edge strengths, redundancies and disruption  *)
(* levels are decimal fractions; they are kept as integers in hundredths   *)
(* (0.6 is 60, 1.0 is One = 100).  An impactStrength is a product of three *)
(* such factors and is kept in millionths (0.05 is 50000).  The arithmetic *)
(* is exact on this grid; the values used are ones whose IEEE-754 products *)
(* compare with the thresholds the same way.                               *)
(*                                                                         *)
(* Node ids.  The code's id `<type>:<rawId>` is the pair <<type, rawId>>:  *)
(* no type prefix ("cable:", "pipeline:", "port:", "chokepoint:",          *)
(* "country:") is a prefix of another, so the string and the pair          *)
(* determine each other; startsWith('cable:') is id[1] = "cable" and       *)
(* replace('cable:', '') is id[2].                                         *)
(***************************************************************************)
EXTENDS Integers, Sequences, FiniteSets, TLC

VARIABLES
    UNDERSEA_CABLES,      \* @/config/geo: sequence of cable records
    PIPELINES,            \* @/config/pipelines: sequence of pipeline records
    PORTS,                \* @/config/ports: sequence of port records
    STRATEGIC_WATERWAYS,  \* @/config/geo: sequence of waterway records
    cachedGraph,          \* the module's graph cache (NULL or a graph)
    call,                 \* the last exported function called, with its arguments
    ret,                  \* the value that call returned
    history               \* what an observer of the cache has seen (SpecCache)

vars == <<UNDERSEA_CABLES, PIPELINES, PORTS, STRATEGIC_WATERWAYS, cachedGraph, call, ret,
          history>>

data == <<UNDERSEA_CABLES, PIPELINES, PORTS, STRATEGIC_WATERWAYS>>

----------------------------------------------------------------------------
(* Values *)

NULL == [kind |-> "null"]

\* the literal 1 of `1 - (edge.redundancy || 0)`, in hundredths
One == 100

\* edge.metadata?.estimatedImpact when the edge has no metadata
undefined == "undefined"

\* mutation: the id is not namespaced by the type
NodeIdRaw(type, rawId) == <<"node", rawId>>

NodeId(type, rawId) == <<type, rawId>>

\* Map.prototype.set on a map kept as a function
MapSet(m, k, v) == [x \in (DOMAIN m) \cup {k} |-> IF x = k THEN v ELSE m[x]]

\* Map.prototype.has
MapHas(m, k) == k \in DOMAIN m

\* new Map()
EmptyMap == [x \in {} |-> NULL]

\* `for (const x of seq)` and `seq?.forEach(x => ...)`: Op applied left to right
RECURSIVE ForEach(_, _, _)
ForEach(Op(_, _), acc, seq) ==
    IF seq = <<>> THEN acc ELSE ForEach(Op, Op(acc, Head(seq)), Tail(seq))

----------------------------------------------------------------------------
(* Graph Builder *)

addCablesAsNodes(graph) ==
    ForEach(LAMBDA g, cable :
                [g EXCEPT !.nodes = MapSet(@, NodeId("cable", cable.id),
                    [id |-> NodeId("cable", cable.id), type |-> "cable"])],
            graph, UNDERSEA_CABLES)

addPipelinesAsNodes(graph) ==
    ForEach(LAMBDA g, pipeline :
                [g EXCEPT !.nodes = MapSet(@, NodeId("pipeline", pipeline.id),
                    [id |-> NodeId("pipeline", pipeline.id), type |-> "pipeline"])],
            graph, PIPELINES)

addPortsAsNodes(graph) ==
    ForEach(LAMBDA g, port :
                [g EXCEPT !.nodes = MapSet(@, NodeId("port", port.id),
                    [id |-> NodeId("port", port.id), type |-> "port"])],
            graph, PORTS)

addChokepointsAsNodes(graph) ==
    ForEach(LAMBDA g, waterway :
                [g EXCEPT !.nodes = MapSet(@, NodeId("chokepoint", waterway.id),
                    [id |-> NodeId("chokepoint", waterway.id), type |-> "chokepoint"])],
            graph, STRATEGIC_WATERWAYS)

\* c === 'USA' ? 'US' : c === 'Canada' ? 'CA' : c
pipelineCountryCode(c) == IF c = "USA" THEN "US" ELSE IF c = "Canada" THEN "CA" ELSE c

\* mutation: pipelines contribute no country
countriesOfCablesOnly ==
    UNION {{UNDERSEA_CABLES[i].countriesServed[j].country :
                j \in DOMAIN UNDERSEA_CABLES[i].countriesServed} :
            i \in DOMAIN UNDERSEA_CABLES} \cup
    UNION {{UNDERSEA_CABLES[i].landingPoints[j].country :
                j \in DOMAIN UNDERSEA_CABLES[i].landingPoints} :
            i \in DOMAIN UNDERSEA_CABLES}

\* mutation: landing points contribute no country
countriesServedOnly ==
    UNION {{UNDERSEA_CABLES[i].countriesServed[j].country :
                j \in DOMAIN UNDERSEA_CABLES[i].countriesServed} :
            i \in DOMAIN UNDERSEA_CABLES} \cup
    UNION {{pipelineCountryCode(PIPELINES[i].countries[j]) :
                j \in DOMAIN PIPELINES[i].countries} :
            i \in DOMAIN PIPELINES}

\* the Set<string> `countries`; its insertion order only orders the node map
countries ==
    UNION {{UNDERSEA_CABLES[i].countriesServed[j].country :
                j \in DOMAIN UNDERSEA_CABLES[i].countriesServed} :
            i \in DOMAIN UNDERSEA_CABLES} \cup
    UNION {{UNDERSEA_CABLES[i].landingPoints[j].country :
                j \in DOMAIN UNDERSEA_CABLES[i].landingPoints} :
            i \in DOMAIN UNDERSEA_CABLES} \cup
    UNION {{pipelineCountryCode(PIPELINES[i].countries[j]) :
                j \in DOMAIN PIPELINES[i].countries} :
            i \in DOMAIN PIPELINES}

addCountriesAsNodes(graph) ==
    [graph EXCEPT !.nodes =
        [id \in (DOMAIN graph.nodes) \cup {NodeId("country", code) : code \in countries} |->
            IF id \in {NodeId("country", code) : code \in countries}
            THEN [id |-> id, type |-> "country", code |-> id[2]]
            ELSE graph.nodes[id]]]

\* mutation: every edge is also added in the opposite direction
addEdgeSymmetric(graph, edge) ==
    LET back == [edge EXCEPT !.from = edge.to, !.to = edge.from] IN
    [graph EXCEPT
        !.edges = Append(Append(@, edge), back),
        !.outgoing = [x \in (DOMAIN @) \cup {edge.from, edge.to} |->
            (IF MapHas(@, x) THEN @[x] ELSE <<>>)
                \o (IF x = edge.from THEN <<edge>> ELSE <<>>)
                \o (IF x = edge.to THEN <<back>> ELSE <<>>)],
        !.incoming = [x \in (DOMAIN @) \cup {edge.from, edge.to} |->
            (IF MapHas(@, x) THEN @[x] ELSE <<>>)
                \o (IF x = edge.to THEN <<edge>> ELSE <<>>)
                \o (IF x = edge.from THEN <<back>> ELSE <<>>)]]

\* mutation: the index lists are replaced, not extended
addEdgeOverwrite(graph, edge) ==
    [graph EXCEPT
        !.edges = Append(@, edge),
        !.outgoing = MapSet(@, edge.from, <<edge>>),
        !.incoming = MapSet(@, edge.to, <<edge>>)]

addEdge(graph, edge) ==
    [graph EXCEPT
        !.edges = Append(@, edge),
        !.outgoing = MapSet(@, edge.from,
            Append(IF MapHas(@, edge.from) THEN @[edge.from] ELSE <<>>, edge)),
        !.incoming = MapSet(@, edge.to,
            Append(IF MapHas(@, edge.to) THEN @[edge.to] ELSE <<>>, edge))]

\* mutation: landing points contribute no edge
buildCableCountryEdgesServesOnly(graph) ==
    ForEach(LAMBDA g, cable :
        ForEach(LAMBDA g1, cs :
                    addEdge(g1, [from |-> NodeId("cable", cable.id),
                                 to |-> NodeId("country", cs.country),
                                 type |-> "serves",
                                 strength |-> cs.capacityShare,
                                 redundancy |-> IF cs.isRedundant THEN 50 ELSE 0,
                                 estimatedImpact |->
                                     IF cs.isRedundant
                                     THEN "Medium - redundancy available"
                                     ELSE "High - limited redundancy"]),
                g, cable.countriesServed),
        graph, UNDERSEA_CABLES)

buildCableCountryEdges(graph) ==
    ForEach(LAMBDA g, cable :
        ForEach(LAMBDA g2, lp :
                    addEdge(g2, [from |-> NodeId("cable", cable.id),
                                 to |-> NodeId("country", lp.country),
                                 type |-> "lands_at",
                                 strength |-> 30,
                                 redundancy |-> 50,
                                 estimatedImpact |-> undefined]),
                ForEach(LAMBDA g1, cs :
                            addEdge(g1, [from |-> NodeId("cable", cable.id),
                                         to |-> NodeId("country", cs.country),
                                         type |-> "serves",
                                         strength |-> cs.capacityShare,
                                         redundancy |-> IF cs.isRedundant THEN 50 ELSE 0,
                                         estimatedImpact |->
                                             IF cs.isRedundant
                                             THEN "Medium - redundancy available"
                                             ELSE "High - limited redundancy"]),
                        g, cable.countriesServed),
                cable.landingPoints),
        graph, UNDERSEA_CABLES)

\* mutation: the edge is added whether or not the country node exists
buildPipelineCountryEdgesUnguarded(graph) ==
    ForEach(LAMBDA g, pipeline :
        ForEach(LAMBDA g1, country :
                    addEdge(g1, [from |-> NodeId("pipeline", pipeline.id),
                                 to |-> NodeId("country", pipelineCountryCode(country)),
                                 type |-> "serves",
                                 strength |-> 20,
                                 redundancy |-> 30,
                                 estimatedImpact |-> undefined]),
                g, pipeline.countries),
        graph, PIPELINES)

buildPipelineCountryEdges(graph) ==
    ForEach(LAMBDA g, pipeline :
        ForEach(LAMBDA g1, country :
                    IF MapHas(g1.nodes, NodeId("country", pipelineCountryCode(country)))
                    THEN addEdge(g1, [from |-> NodeId("pipeline", pipeline.id),
                                      to |-> NodeId("country", pipelineCountryCode(country)),
                                      type |-> "serves",
                                      strength |-> 20,
                                      redundancy |-> 30,
                                      estimatedImpact |-> undefined])
                    ELSE g1,
                g, pipeline.countries),
        graph, PIPELINES)

\* the graph the builder constructs when the cache is empty (lines 209-223);
\* `instance` is the identity of the object literal of line 209: the number of
\* graphs constructed before it, plus one
newGraph ==
    buildPipelineCountryEdges(
    buildCableCountryEdges(
    addCountriesAsNodes(
    addChokepointsAsNodes(
    addPortsAsNodes(
    addPipelinesAsNodes(
    addCablesAsNodes(
        [nodes |-> EmptyMap, edges |-> <<>>, outgoing |-> EmptyMap, incoming |-> EmptyMap,
         instance |-> history.constructions + 1])))))))

\* mutation: the cache is not consulted
buildDependencyGraphUncached == newGraph

\* the graph buildDependencyGraph() returns, which is also the cache afterwards
buildDependencyGraph == IF cachedGraph # NULL THEN cachedGraph ELSE newGraph

----------------------------------------------------------------------------
(* Cascade Simulator *)

\* mutation: redundancy does not dampen the impact
impactStrengthNoRedundancy(edge, disruptionLevel) ==
    edge.strength * disruptionLevel * One

\* mutation: the disruption level does not scale the impact
impactStrengthUnscaled(edge, disruptionLevel) ==
    edge.strength * One * (One - edge.redundancy)

\* mutation: redundancy amplifies the impact
impactStrengthAmplified(edge, disruptionLevel) ==
    edge.strength * disruptionLevel * (One + edge.redundancy)

\* edge.strength * disruptionLevel * (1 - (edge.redundancy || 0)), in millionths
impactStrength(edge, disruptionLevel) ==
    edge.strength * disruptionLevel * (One - edge.redundancy)

\* mutation: the thresholds are inclusive
categorizeImpactInclusive(strength) ==
    IF strength >= 800000 THEN "critical"
    ELSE IF strength >= 500000 THEN "high"
    ELSE IF strength >= 200000 THEN "medium"
    ELSE "low"

categorizeImpact(strength) ==
    IF strength > 800000 THEN "critical"
    ELSE IF strength > 500000 THEN "high"
    ELSE IF strength > 200000 THEN "medium"
    ELSE "low"

\* mutation: the depth test is off by one
MaxDepthOffByOne == 3 + 1

\* `if (depth >= 3) continue`
MaxDepth == 3

\* affected.set(key, entry) on the Map `affected`, kept in insertion order
affectedSet(affected, key, entry) ==
    IF \E i \in DOMAIN affected : affected[i].node.id = key
    THEN [i \in DOMAIN affected |-> IF affected[i].node.id = key THEN entry ELSE affected[i]]
    ELSE Append(affected, entry)

\* mutation: a redundancy of exactly 0.3 counts as available
recordInclusive(graph, disruptionLevel, item, st, edge) ==
    [st EXCEPT
        !.affected = affectedSet(@, edge.to,
            [node |-> graph.nodes[edge.to],
             impactLevel |-> categorizeImpact(impactStrength(edge, disruptionLevel)),
             pathLength |-> item.depth + 1,
             dependencyChain |-> Append(item.path, edge.to),
             redundancyAvailable |-> edge.redundancy >= 30,
             estimatedRecovery |-> edge.estimatedImpact]),
        !.queue = Append(@, [nodeId |-> edge.to,
                             depth |-> item.depth + 1,
                             path |-> Append(item.path, edge.to)])]

\* the affected-node entry and the queue item of lines 268-281
record(graph, disruptionLevel, item, st, edge) ==
    [st EXCEPT
        !.affected = affectedSet(@, edge.to,
            [node |-> graph.nodes[edge.to],
             impactLevel |-> categorizeImpact(impactStrength(edge, disruptionLevel)),
             pathLength |-> item.depth + 1,
             dependencyChain |-> Append(item.path, edge.to),
             redundancyAvailable |-> edge.redundancy > 30,
             estimatedRecovery |-> edge.estimatedImpact]),
        !.queue = Append(@, [nodeId |-> edge.to,
                             depth |-> item.depth + 1,
                             path |-> Append(item.path, edge.to)])]

\* mutation: the noise floor is not applied
visitEdgeNoFloor(graph, disruptionLevel, item, st, edge) ==
    IF edge.to \in st.visited THEN st
    ELSE LET marked == [st EXCEPT !.visited = @ \cup {edge.to}]
         IN  IF ~MapHas(graph.nodes, edge.to) THEN marked
             ELSE record(graph, disruptionLevel, item, marked, edge)

\* mutation: the target is marked visited only once it passes the threshold test
visitEdgeMarkAfterTest(graph, disruptionLevel, item, st, edge) ==
    IF edge.to \in st.visited THEN st
    ELSE IF ~MapHas(graph.nodes, edge.to) \/ impactStrength(edge, disruptionLevel) < 50000
         THEN st
         ELSE record(graph, disruptionLevel, item,
                     [st EXCEPT !.visited = @ \cup {edge.to}], edge)

\* mutation: targets already visited are visited again
visitEdgeRevisit(graph, disruptionLevel, item, st, edge) ==
    LET marked == [st EXCEPT !.visited = @ \cup {edge.to}]
    IN  IF ~MapHas(graph.nodes, edge.to) \/ impactStrength(edge, disruptionLevel) < 50000
        THEN marked
        ELSE record(graph, disruptionLevel, item, marked, edge)

\* one iteration of `for (const edge of dependents)` for the dequeued item
visitEdge(graph, disruptionLevel, item, st, edge) ==
    IF edge.to \in st.visited THEN st
    ELSE LET marked == [st EXCEPT !.visited = @ \cup {edge.to}]
         IN  IF ~MapHas(graph.nodes, edge.to) \/ impactStrength(edge, disruptionLevel) < 50000
             THEN marked
             ELSE record(graph, disruptionLevel, item, marked, edge)

\* `graph.outgoing.get(nodeId) || []`
dependents(graph, nodeId) ==
    IF MapHas(graph.outgoing, nodeId) THEN graph.outgoing[nodeId] ELSE <<>>

\* one iteration of the while loop: lines 254-282 (the queue is not empty)
iterate(graph, disruptionLevel, st) ==
    LET item == Head(st.queue)
        rest == [st EXCEPT !.queue = Tail(@)]
    IN  IF item.depth >= MaxDepth
        THEN rest
        ELSE ForEach(LAMBDA s, edge : visitEdge(graph, disruptionLevel, item, s, edge),
                     rest, dependents(graph, item.nodeId))

\* `while (queue.length > 0)`
RECURSIVE propagate(_, _, _)
propagate(graph, disruptionLevel, st) ==
    IF st.queue = <<>> THEN st
    ELSE propagate(graph, disruptionLevel, iterate(graph, disruptionLevel, st))

\* UNDERSEA_CABLES.find(c => c.id === cableId): the first match, or NULL
findCable(cableId) ==
    IF \E i \in DOMAIN UNDERSEA_CABLES : UNDERSEA_CABLES[i].id = cableId
    THEN UNDERSEA_CABLES[CHOOSE i \in DOMAIN UNDERSEA_CABLES :
            /\ UNDERSEA_CABLES[i].id = cableId
            /\ \A j \in 1..(i - 1) : UNDERSEA_CABLES[j].id # cableId]
    ELSE NULL

\* mutation: the placeholder is returned for every source type
getCapacityForCountryPlaceholder(sourceId, countryCode) == 10

getCapacityForCountry(sourceId, countryCode) ==
    IF sourceId[1] = "cable"
    THEN LET cable == findCable(sourceId[2])
             served == IF cable = NULL THEN <<>> ELSE cable.countriesServed
         IN  IF \E i \in DOMAIN served : served[i].country = countryCode
             THEN served[CHOOSE i \in DOMAIN served :
                    /\ served[i].country = countryCode
                    /\ \A j \in 1..(i - 1) : served[j].country # countryCode].capacityShare
             ELSE 0
    ELSE 10

RECURSIVE gcd(_, _)
gcd(a, b) == IF b = 0 THEN a ELSE gcd(b, a % b)

\* sum / n as an exact fraction in lowest terms (n > 0, sum >= 0)
mean(sum, n) == [num |-> sum \div gcd(n, sum), den |-> n \div gcd(n, sum)]

\* the cables that share a served country with the source cable, in dataset order
alternatives(sourceId, sourceCable) ==
    LET sourceCountries ==
            {sourceCable.countriesServed[i].country :
                i \in DOMAIN sourceCable.countriesServed}
    IN  ForEach(LAMBDA alts, cable :
            IF cable.id = sourceId[2] THEN alts
            ELSE LET sharedCountries ==
                         SelectSeq(cable.countriesServed,
                                   LAMBDA c : c.country \in sourceCountries)
                 IN  IF Len(sharedCountries) > 0
                     THEN Append(alts,
                          [id |-> cable.id,
                           capacityShare |->
                              mean(ForEach(LAMBDA sum, c : sum + c.capacityShare,
                                           0, sharedCountries),
                                   Len(sharedCountries))])
                     ELSE alts,
            <<>>, UNDERSEA_CABLES)

\* mutation: the source type is not looked at
findRedundanciesAnySource(sourceId) ==
    LET sourceCable == findCable(sourceId[2]) IN
    IF sourceCable = NULL THEN <<>>
    ELSE LET alts == alternatives(sourceId, sourceCable)
         IN  SubSeq(alts, 1, IF Len(alts) < 5 THEN Len(alts) ELSE 5)

\* mutation: every candidate is returned
findRedundanciesUnsliced(sourceId) ==
    IF sourceId[1] # "cable" THEN <<>>
    ELSE LET sourceCable == findCable(sourceId[2]) IN
         IF sourceCable = NULL THEN <<>>
         ELSE alternatives(sourceId, sourceCable)

findRedundancies(sourceId) ==
    IF sourceId[1] # "cable" THEN <<>>
    ELSE LET sourceCable == findCable(sourceId[2]) IN
         IF sourceCable = NULL THEN <<>>
         ELSE LET alts == alternatives(sourceId, sourceCable)
              IN  SubSeq(alts, 1, IF Len(alts) < 5 THEN Len(alts) ELSE 5)

\* const order = { critical: 0, high: 1, medium: 2, low: 3 }
order(impactLevel) ==
    CASE impactLevel = "critical" -> 0
      [] impactLevel = "high" -> 1
      [] impactLevel = "medium" -> 2
      [] impactLevel = "low" -> 3

\* mutation: the tie-break orders by ascending capacity
compareImpactAscendingCapacity(a, b) ==
    IF order(a.impactLevel) - order(b.impactLevel) # 0
    THEN order(a.impactLevel) - order(b.impactLevel)
    ELSE a.affectedCapacity - b.affectedCapacity

\* the comparator of countriesAffected.sort: (order[a] - order[b]) || (b.cap - a.cap)
compareImpact(a, b) ==
    IF order(a.impactLevel) - order(b.impactLevel) # 0
    THEN order(a.impactLevel) - order(b.impactLevel)
    ELSE b.affectedCapacity - a.affectedCapacity

\* Array.prototype.sort with that comparator: a stable sort
sortInsert(sorted, x) ==
    LET after == {i \in DOMAIN sorted : compareImpact(sorted[i], x) > 0}
        k == IF after = {} THEN Len(sorted) + 1
             ELSE CHOOSE i \in after : \A j \in after : i <= j
    IN  SubSeq(sorted, 1, k - 1) \o <<x>> \o SubSeq(sorted, k, Len(sorted))

sort(list) == ForEach(sortInsert, <<>>, list)

\* calculateCascade past the source lookup (lines 245-310)
cascadeResult(graph, sourceId, disruptionLevel) ==
         LET affected ==
                 propagate(graph, disruptionLevel,
                     [affected |-> <<>>,
                      visited |-> {sourceId},
                      queue |-> <<[nodeId |-> sourceId, depth |-> 0, path |-> <<sourceId>>]>>]).affected
             countriesAffected ==
                 ForEach(LAMBDA list, affectedNode :
                             IF affectedNode.node.type = "country"
                             THEN Append(list,
                                    [country |-> affectedNode.node.code,
                                     impactLevel |-> affectedNode.impactLevel,
                                     affectedCapacity |->
                                        getCapacityForCountry(sourceId, affectedNode.node.code)])
                             ELSE list,
                         <<>>, affected)
         IN  [kind |-> "result",
              source |-> graph.nodes[sourceId],
              affectedNodes |-> affected,
              countriesAffected |-> sort(countriesAffected),
              redundancies |-> findRedundancies(sourceId)]

\* mutation: a missing source yields a result with nothing affected
calculateCascadeEmptyOnMissing(graph, sourceId, disruptionLevel) ==
    IF ~MapHas(graph.nodes, sourceId)
    THEN [kind |-> "result", source |-> NULL, affectedNodes |-> <<>>,
          countriesAffected |-> <<>>, redundancies |-> <<>>]
    ELSE cascadeResult(graph, sourceId, disruptionLevel)

\* mutation: a disruptionLevel outside (0, 1] is rejected like a missing source
calculateCascadeRangeChecked(graph, sourceId, disruptionLevel) ==
    IF ~MapHas(graph.nodes, sourceId) \/ disruptionLevel <= 0 \/ disruptionLevel > One
    THEN NULL
    ELSE cascadeResult(graph, sourceId, disruptionLevel)

calculateCascade(graph, sourceId, disruptionLevel) ==
    IF ~MapHas(graph.nodes, sourceId) THEN NULL
    ELSE cascadeResult(graph, sourceId, disruptionLevel)

getGraphStats(graph) ==
    [kind |-> "stats",
     nodes |-> Cardinality(DOMAIN graph.nodes),
     edges |-> Len(graph.edges),
     cables |-> Cardinality({id \in DOMAIN graph.nodes : graph.nodes[id].type = "cable"}),
     pipelines |-> Cardinality({id \in DOMAIN graph.nodes : graph.nodes[id].type = "pipeline"}),
     countries |-> Cardinality({id \in DOMAIN graph.nodes : graph.nodes[id].type = "country"})]

----------------------------------------------------------------------------
(* Reference data and inputs *)

\* all sequences over S of length at most n
SeqsUpTo(S, n) == UNION {[1..k -> S] : k \in 0..n}

\* longest served-country list of a cable record
MaxServed == 2

\* (capacityShare, isRedundant) of a served-country entry
ServedCaps == {<<60, FALSE>>, <<40, TRUE>>, <<5, FALSE>>}

ServedEntries ==
    {[country |-> c, capacityShare |-> cap[1], isRedundant |-> cap[2]] :
        c \in {"A", "B"}, cap \in ServedCaps}

LandingLists == {<<>>, <<[country |-> "A"]>>, <<[country |-> "C"]>>}

\* no cable, or the one cable "x"
CableDatasets ==
    {<<>>} \cup
    {<<[id |-> "x", countriesServed |-> s, landingPoints |-> l]>> :
        s \in SeqsUpTo(ServedEntries, MaxServed), l \in LandingLists}

\* no pipeline, or the one pipeline "x"
PipelineDatasets == {<<>>, <<[id |-> "x", countries |-> <<"A">>]>>,
                     <<[id |-> "x", countries |-> <<"USA">>]>>}

\* disruptionLevel arguments, in hundredths
DisruptionLevels == {-100, 0, 50, 100, 200}

\* a source id that names no node of any graph
MissingIds == {NodeId("cable", "does-not-exist")}

SourceIds == (DOMAIN newGraph.nodes) \cup MissingIds

----------------------------------------------------------------------------
(* The service: the exported functions as actions *)

\* nothing observed yet: no graph constructed, no invalidation, no cache hit
NoHistory == [constructions |-> 0, invalidations |-> 0, reused |-> FALSE, cleared |-> NULL]

Init ==
    /\ UNDERSEA_CABLES \in CableDatasets
    /\ PIPELINES \in PipelineDatasets
    /\ PORTS = <<[id |-> "x"]>>
    /\ STRATEGIC_WATERWAYS = <<[id |-> "x"]>>
    /\ cachedGraph = NULL
    /\ call = [op |-> "none"]
    /\ ret = [kind |-> "none"]
    /\ history = NoHistory

\* buildGraph()
BuildDependencyGraph ==
    LET graph == buildDependencyGraph IN
    /\ cachedGraph' = graph
    /\ call' = [op |-> "buildDependencyGraph"]
    /\ ret' = [kind |-> "graph", graph |-> graph]
    /\ UNCHANGED data

\* mutation: the cache is left as it is
ClearGraphCacheKeeps ==
    /\ cachedGraph' = cachedGraph
    /\ call' = [op |-> "clearGraphCache"]
    /\ ret' = [kind |-> "void"]
    /\ UNCHANGED data

\* invalidateGraph()
ClearGraphCache ==
    /\ cachedGraph' = NULL
    /\ call' = [op |-> "clearGraphCache"]
    /\ ret' = [kind |-> "void"]
    /\ UNCHANGED data

\* mutation: the graph is constructed anew for the simulation
CalculateCascadeRebuilds(sourceId, disruptionLevel) ==
    LET graph == newGraph IN
    /\ cachedGraph' = graph
    /\ call' = [op |-> "calculateCascade", sourceId |-> sourceId,
                disruptionLevel |-> disruptionLevel]
    /\ ret' = calculateCascade(graph, sourceId, disruptionLevel)
    /\ UNCHANGED data

\* mutation: the source's dependents are taken off the graph's own list
CalculateCascadeShifts(sourceId, disruptionLevel) ==
    LET graph == buildDependencyGraph IN
    /\ cachedGraph' = [graph EXCEPT !.outgoing =
                            [id \in DOMAIN @ |-> IF id = sourceId THEN Tail(@[id]) ELSE @[id]]]
    /\ call' = [op |-> "calculateCascade", sourceId |-> sourceId,
                disruptionLevel |-> disruptionLevel]
    /\ ret' = calculateCascade(graph, sourceId, disruptionLevel)
    /\ UNCHANGED data

\* simulateCascade(sourceId, disruptionLevel)
CalculateCascade(sourceId, disruptionLevel) ==
    LET graph == buildDependencyGraph IN
    /\ cachedGraph' = graph
    /\ call' = [op |-> "calculateCascade", sourceId |-> sourceId,
                disruptionLevel |-> disruptionLevel]
    /\ ret' = calculateCascade(graph, sourceId, disruptionLevel)
    /\ UNCHANGED data

\* graphStats()
GetGraphStats ==
    LET graph == buildDependencyGraph IN
    /\ cachedGraph' = graph
    /\ call' = [op |-> "getGraphStats"]
    /\ ret' = getGraphStats(graph)
    /\ UNCHANGED data

Next ==
    \/ BuildDependencyGraph /\ UNCHANGED history
    \/ ClearGraphCache /\ UNCHANGED history
    \/ \E sourceId \in SourceIds, disruptionLevel \in DisruptionLevels :
            CalculateCascade(sourceId, disruptionLevel) /\ UNCHANGED history
    \/ GetGraphStats /\ UNCHANGED history

Spec == Init /\ [][Next]_vars

----------------------------------------------------------------------------
(* The cascade over every graph of the DependencyGraph type (within bounds), *)
(* not only the one-hop graphs the builder makes: chains, shortcuts, cycles  *)

\* number of nodes of such a graph
NumNodes == 5

nodeNames == <<"n1", "n2", "n3", "n4", "n5", "n6", "n7", "n8">>

node(i) == NodeId("port", nodeNames[i])

\* the edges a graph may have: i -> i+1, i -> i+2, and back to the first node
edgeSlots ==
    {<<i, i + 1>> : i \in 1..(NumNodes - 1)} \cup
    {<<i, i + 2>> : i \in 1..(NumNodes - 2)} \cup
    {<<2, 1>>, <<NumNodes, 1>>}

\* a graph: each slot absent, strong (1.0) or, for i -> i+1 only, weak (0.04)
edgeChoices ==
    {w \in [edgeSlots -> {"absent", "strong", "weak"}] :
        \A slot \in edgeSlots : w[slot] = "weak" => slot[2] = slot[1] + 1}

\* the chosen edges, ordered by source and then by target
RECURSIVE edgeList(_, _)
edgeList(w, slots) ==
    IF slots = {} THEN <<>>
    ELSE LET first == CHOOSE a \in slots : \A b \in slots :
                        a[1] < b[1] \/ (a[1] = b[1] /\ a[2] <= b[2])
         IN  (IF w[first] = "absent" THEN <<>>
              ELSE <<[from |-> node(first[1]), to |-> node(first[2]), type |-> "serves",
                      strength |-> IF w[first] = "weak" THEN 4 ELSE 100,
                      redundancy |-> 0, estimatedImpact |-> undefined]>>)
             \o edgeList(w, slots \ {first})

graphOf(w) ==
    ForEach(addEdge,
            [nodes |-> [id \in {node(i) : i \in 1..NumNodes} |-> [id |-> id, type |-> "port"]],
             edges |-> <<>>, outgoing |-> EmptyMap, incoming |-> EmptyMap],
            edgeList(w, edgeSlots))

InitGraph ==
    /\ UNDERSEA_CABLES = <<>>
    /\ PIPELINES = <<>>
    /\ PORTS = <<>>
    /\ STRATEGIC_WATERWAYS = <<>>
    /\ \E w \in edgeChoices : cachedGraph = graphOf(w)
    /\ call = [op |-> "none"]
    /\ ret = [kind |-> "none"]
    /\ history = NoHistory

NextGraph ==
    \E sourceId \in (DOMAIN cachedGraph.nodes) \cup MissingIds :
        CalculateCascade(sourceId, 100) /\ UNCHANGED history

SpecGraph == InitGraph /\ [][NextGraph]_vars

----------------------------------------------------------------------------
(* One propagation step (the loop body for one edge) over every strength *)

Redundancies == {0, 30, 50}

EdgeDisruptionLevels == {-100, 0, 25, 50, 100, 200}

\* the edges the step is applied to: every strength in [0, 1] by hundredths
EdgeInputs ==
    {[from |-> node(1), to |-> node(2), type |-> "serves", strength |-> strength,
      redundancy |-> redundancy, estimatedImpact |-> undefined] :
        strength \in 0..One, redundancy \in Redundancies}

InitEdge ==
    /\ UNDERSEA_CABLES = <<>>
    /\ PIPELINES = <<>>
    /\ PORTS = <<>>
    /\ STRATEGIC_WATERWAYS = <<>>
    /\ cachedGraph = NULL
    /\ \E edge \in EdgeInputs, disruptionLevel \in EdgeDisruptionLevels :
            call = [op |-> "pending", edge |-> edge, disruptionLevel |-> disruptionLevel]
    /\ ret = [kind |-> "none"]
    /\ history = NoHistory

\* the loop body for call.edge out of a source dequeued at depth 0
VisitEdge ==
    /\ call.op = "pending"
    /\ call' = [call EXCEPT !.op = "visitEdge"]
    /\ ret' = [kind |-> "visit",
               state |-> visitEdge(
                   [nodes |-> [id \in {call.edge.from, call.edge.to} |->
                                    [id |-> id, type |-> "port"]],
                    edges |-> <<call.edge>>, outgoing |-> EmptyMap, incoming |-> EmptyMap],
                   call.disruptionLevel,
                   [nodeId |-> call.edge.from, depth |-> 0, path |-> <<call.edge.from>>],
                   [affected |-> <<>>, visited |-> {call.edge.from}, queue |-> <<>>],
                   call.edge)]
    /\ UNCHANGED <<data, cachedGraph>>

NextEdge == VisitEdge /\ UNCHANGED history

SpecEdge == InitEdge /\ [][NextEdge]_vars

----------------------------------------------------------------------------
(* The graph cache, with an observer: datasets with two cables, country      *)
(* aliases, raw ids shared between kinds, and optional ports and waterways   *)

\* invalidateGraph() calls in one behaviour
MaxInvalidations == 1

BuilderEntries ==
    {[country |-> "A", capacityShare |-> 60, isRedundant |-> FALSE],
     [country |-> "USA", capacityShare |-> 40, isRedundant |-> TRUE]}

BuilderCables(id) ==
    {[id |-> id, countriesServed |-> s, landingPoints |-> l] :
        s \in SeqsUpTo(BuilderEntries, MaxServed),
        l \in {<<>>, <<[country |-> "US"]>>}}

\* no cable, the cable "x", or "x" followed by a cable "y" that serves A
BuilderCableDatasets ==
    {<<>>} \cup {<<c>> : c \in BuilderCables("x")}
           \cup {<<c, [id |-> "y",
                     countriesServed |-> <<[country |-> "A", capacityShare |-> 100,
                                            isRedundant |-> TRUE]>>,
                     landingPoints |-> <<>>]>> : c \in BuilderCables("x")}

BuilderPipelineDatasets ==
    {<<>>} \cup {<<[id |-> "x", countries |-> cs]>> :
                    cs \in {<<"A">>, <<"USA", "US">>, <<"Canada">>}}

InitCache ==
    /\ UNDERSEA_CABLES \in BuilderCableDatasets
    /\ PIPELINES \in BuilderPipelineDatasets
    /\ PORTS \in {<<>>, <<[id |-> "x"]>>}
    /\ STRATEGIC_WATERWAYS \in {<<>>, <<[id |-> "x"]>>}
    /\ cachedGraph = NULL
    /\ call = [op |-> "none"]
    /\ ret = [kind |-> "none"]
    /\ history = NoHistory

\* the observer: graphs constructed so far (a new object has a new identity),
\* invalidations so far, whether the call found the cache filled, and the
\* graph the last invalidation dropped
Observe ==
    history' =
        [constructions |->
            IF cachedGraph' # NULL /\ cachedGraph'.instance > history.constructions
            THEN cachedGraph'.instance ELSE history.constructions,
         invalidations |->
            IF call'.op = "clearGraphCache"
            THEN history.invalidations + 1 ELSE history.invalidations,
         reused |-> cachedGraph # NULL /\ call'.op # "clearGraphCache",
         cleared |-> IF call'.op = "clearGraphCache" THEN cachedGraph ELSE history.cleared]

NextCache ==
    \/ BuildDependencyGraph /\ Observe
    \/ history.invalidations < MaxInvalidations /\ ClearGraphCache /\ Observe
    \/ \E sourceId \in {NodeId("cable", "x"), NodeId("pipeline", "x")} \cup MissingIds,
          disruptionLevel \in {0, 100} :
            CalculateCascade(sourceId, disruptionLevel) /\ Observe
    \/ GetGraphStats /\ Observe

SpecCache == InitCache /\ [][NextCache]_vars

----------------------------------------------------------------------------
(* Redundancy lookup over a dataset of several cables *)

\* number of cable records
NumCables == 7

CableIds == <<"c1", "c2", "c3", "c4", "c5", "c6", "c7", "c8">>

\* served-country lists of a cable record
ServedLists ==
    {<<>>,
     <<[country |-> "A", capacityShare |-> 60, isRedundant |-> FALSE]>>,
     <<[country |-> "A", capacityShare |-> 40, isRedundant |-> TRUE],
       [country |-> "B", capacityShare |-> 15, isRedundant |-> FALSE]>>}

RedundancySourceIds ==
    {NodeId("cable", "c1"), NodeId("cable", "c4"), NodeId("cable", "does-not-exist"),
     NodeId("pipeline", "c1"), NodeId("port", "c1"), NodeId("chokepoint", "c1"),
     NodeId("country", "A")}

InitRedundancy ==
    /\ \E served \in [1..NumCables -> ServedLists] :
            UNDERSEA_CABLES = [i \in 1..NumCables |->
                [id |-> CableIds[i], countriesServed |-> served[i], landingPoints |-> <<>>]]
    /\ PIPELINES = <<[id |-> "c1", countries |-> <<"A">>]>>
    /\ PORTS = <<[id |-> "c1"]>>
    /\ STRATEGIC_WATERWAYS = <<[id |-> "c1"]>>
    /\ cachedGraph = NULL
    /\ \E sourceId \in RedundancySourceIds : call = [op |-> "pending", sourceId |-> sourceId]
    /\ ret = [kind |-> "none"]
    /\ history = NoHistory

\* findRedundancies(call.sourceId)
FindRedundancies ==
    /\ call.op = "pending"
    /\ call' = [call EXCEPT !.op = "findRedundancies"]
    /\ ret' = findRedundancies(call.sourceId)
    /\ UNCHANGED <<data, cachedGraph>>

NextRedundancy ==
    \/ FindRedundancies /\ UNCHANGED history
    \/ call.op = "pending" /\ CalculateCascade(call.sourceId, 100) /\ UNCHANGED history

SpecRedundancy == InitRedundancy /\ [][NextRedundancy]_vars

(* buildPipelineCountryEdges applied to graphs with any set of country nodes *)

\* longest country list of a pipeline record
MaxPipelineCountries == 2

PipelineLabels == {"A", "USA", "US", "Canada"}

\* the pipeline "x" alone, or followed by a pipeline "y" through A
EdgePipelineDatasets ==
    {<<[id |-> "x", countries |-> cs]>> : cs \in SeqsUpTo(PipelineLabels, MaxPipelineCountries)}
    \cup {<<[id |-> "x", countries |-> cs], [id |-> "y", countries |-> <<"A">>]>> :
            cs \in SeqsUpTo(PipelineLabels, MaxPipelineCountries)}

\* the graph handed to buildPipelineCountryEdges: the pipeline nodes, the given
\* country nodes and no edge yet
partialGraph(codes) ==
    [addPipelinesAsNodes([nodes |-> EmptyMap, edges |-> <<>>, outgoing |-> EmptyMap,
                          incoming |-> EmptyMap, instance |-> 1])
        EXCEPT !.nodes = [id \in (DOMAIN @) \cup {NodeId("country", code) : code \in codes} |->
                            IF id \in DOMAIN @ THEN @[id]
                            ELSE [id |-> id, type |-> "country", code |-> id[2]]]]

InitPipelineEdges ==
    /\ UNDERSEA_CABLES = <<>>
    /\ PIPELINES \in EdgePipelineDatasets
    /\ PORTS = <<>>
    /\ STRATEGIC_WATERWAYS = <<>>
    /\ cachedGraph = NULL
    /\ \E codes \in SUBSET {"A", "US", "CA", "USA"} :
            call = [op |-> "pending", graph |-> partialGraph(codes)]
    /\ ret = [kind |-> "none"]
    /\ history = NoHistory

\* buildPipelineCountryEdges(call.graph)
BuildPipelineCountryEdges ==
    /\ call.op = "pending"
    /\ call' = [call EXCEPT !.op = "buildPipelineCountryEdges"]
    /\ ret' = [kind |-> "graph", graph |-> buildPipelineCountryEdges(call.graph)]
    /\ UNCHANGED <<data, cachedGraph>>

NextPipelineEdges == BuildPipelineCountryEdges /\ UNCHANGED history

SpecPipelineEdges == InitPipelineEdges /\ [][NextPipelineEdges]_vars

----------------------------------------------------------------------------
(* The propagation loop, one iteration of the while loop per step *)

LoopDisruptionLevels == {100, 200}

\* lines 244-251: the state of the loop before its first iteration
InitLoop ==
    /\ UNDERSEA_CABLES = <<>>
    /\ PIPELINES = <<>>
    /\ PORTS = <<>>
    /\ STRATEGIC_WATERWAYS = <<>>
    /\ \E w \in edgeChoices : cachedGraph = graphOf(w)
    /\ \E sourceId \in {node(1), node(NumNodes)}, disruptionLevel \in LoopDisruptionLevels :
            /\ call = [op |-> "propagate", sourceId |-> sourceId,
                       disruptionLevel |-> disruptionLevel]
            /\ ret = [kind |-> "loop",
                      state |-> [affected |-> <<>>,
                                 visited |-> {sourceId},
                                 queue |-> <<[nodeId |-> sourceId, depth |-> 0,
                                              path |-> <<sourceId>>]>>],
                      pushed |-> <<sourceId>>]
    /\ history = NoHistory

\* the body of `while (queue.length > 0)`, once; `pushed` lists the node ids of
\* every queue.push so far
Iterate ==
    /\ ret.state.queue # <<>>
    /\ LET st == iterate(cachedGraph, call.disruptionLevel, ret.state)
       IN  ret' = [ret EXCEPT
                    !.state = st,
                    !.pushed = @ \o [i \in 1..(Len(st.queue) - Len(ret.state.queue) + 1) |->
                                        st.queue[Len(ret.state.queue) - 1 + i].nodeId]]
    /\ UNCHANGED <<data, cachedGraph, call>>

NextLoop == Iterate /\ UNCHANGED history

\* the loop runs on: an iteration that can be taken is taken
SpecLoop == InitLoop /\ [][NextLoop]_vars /\ WF_vars(NextLoop)

----------------------------------------------------------------------------
(* Properties *)

\* the last call was simulateCascade on a source that exists in the graph
Simulated ==
    /\ call.op = "calculateCascade"
    /\ call.sourceId \in DOMAIN cachedGraph.nodes

\* the first edge of outgoing[from] that goes to `to`
firstEdge(graph, from, to) ==
    LET out == dependents(graph, from)
    IN  out[CHOOSE i \in DOMAIN out :
                /\ out[i].to = to
                /\ \A j \in 1..(i - 1) : out[j].to # to]

\* the edge through which an affected node was reached: the first edge to it
\* out of the node before it on its dependency chain
reachingEdge(graph, entry) ==
    firstEdge(graph, entry.dependencyChain[Len(entry.dependencyChain) - 1], entry.node.id)

affectedIds(result) == {result.affectedNodes[i].node.id : i \in DOMAIN result.affectedNodes}

\* C1: simulateCascade on a source id that is not a key of the node map returns
\* the not-found value (null), not a result with an empty affected set
C1_NotFound ==
    (call.op = "calculateCascade" /\ call.sourceId \notin DOMAIN cachedGraph.nodes)
        => ret = NULL

C1_Witness ==
    /\ call.op = "calculateCascade"
    /\ call.sourceId \notin DOMAIN cachedGraph.nodes
    /\ DOMAIN cachedGraph.nodes # {}
    /\ ret = NULL

\* C2: for every source id in the graph and every disruptionLevel (0, negative
\* and above 1 included) simulateCascade returns a CascadeResult, so a missing
\* source id is the only input with a non-success result
C2_AlwaysResult ==
    call.op = "calculateCascade" =>
        /\ call.sourceId \in DOMAIN cachedGraph.nodes => ret.kind = "result"
        /\ ret.kind # "result" => (ret = NULL /\ call.sourceId \notin DOMAIN cachedGraph.nodes)

C2_Witness ==
    /\ Simulated
    /\ call.disruptionLevel < 0
    /\ dependents(cachedGraph, call.sourceId) # <<>>
    /\ ret.kind = "result"

\* C3: every affected node of every result has pathLength <= 3, on every graph:
\* an item dequeued at depth 3 is not expanded
C3_DepthBound ==
    ret.kind = "result" =>
        \A i \in DOMAIN ret.affectedNodes : ret.affectedNodes[i].pathLength <= 3

\* a node three hops away is affected and has an edge of full strength to a node
\* that is not
C3_Witness ==
    /\ ret.kind = "result"
    /\ \E i \in DOMAIN ret.affectedNodes :
        /\ ret.affectedNodes[i].pathLength = 3
        /\ \E j \in DOMAIN cachedGraph.edges :
            /\ cachedGraph.edges[j].from = ret.affectedNodes[i].node.id
            /\ cachedGraph.edges[j].strength = One
            /\ cachedGraph.edges[j].to \notin affectedIds(ret) \cup {call.sourceId}

\* C4: an affected node is recorded only if the edge that reached it has
\* impactStrength >= 0.05, and a propagation below 0.05 is not expanded either:
\* every node on an affected node's chain after the source is itself affected
C4_ThresholdFloor ==
    ret.kind = "result" =>
        \A i \in DOMAIN ret.affectedNodes :
            LET entry == ret.affectedNodes[i]
                edge == reachingEdge(cachedGraph, entry)
            IN  /\ edge.strength * call.disruptionLevel * (100 - edge.redundancy) >= 50000
                /\ \A k \in 2..Len(entry.dependencyChain) :
                        entry.dependencyChain[k] \in affectedIds(ret)

\* an edge below the floor leaves an affected node (or the source) for a node
\* that is not recorded, and that node has a full-strength edge to another
\* node that is not recorded either
C4_Witness ==
    /\ ret.kind = "result"
    /\ ret.affectedNodes # <<>>
    /\ \E j, k \in DOMAIN cachedGraph.edges :
        /\ cachedGraph.edges[j].from \in affectedIds(ret) \cup {call.sourceId}
        /\ impactStrength(cachedGraph.edges[j], call.disruptionLevel) < 50000
        /\ cachedGraph.edges[j].to \notin affectedIds(ret) \cup {call.sourceId}
        /\ cachedGraph.edges[k].from = cachedGraph.edges[j].to
        /\ cachedGraph.edges[k].strength = One
        /\ cachedGraph.edges[k].to \notin affectedIds(ret) \cup {call.sourceId}

\* C5: the impact level follows from the impactStrength by strict thresholds:
\* critical iff > 0.8, high iff in (0.5, 0.8], medium iff in (0.2, 0.5], low
\* otherwise, so 0.8, 0.5 and 0.2 fall into the lower category
C5_StrictThresholds ==
    call.op = "visitEdge" =>
        \A i \in DOMAIN ret.state.affected :
            LET s == call.edge.strength * call.disruptionLevel * (100 - call.edge.redundancy)
                level == ret.state.affected[i].impactLevel
            IN  /\ level = "critical" <=> s > 800000
                /\ level = "high" <=> (s > 500000 /\ s <= 800000)
                /\ level = "medium" <=> (s > 200000 /\ s <= 500000)
                /\ level = "low" <=> s <= 200000

\* an impactStrength of exactly 0.8 is recorded as high
C5_Witness ==
    /\ call.op = "visitEdge"
    /\ call.edge.strength * call.disruptionLevel * (100 - call.edge.redundancy) = 800000
    /\ Len(ret.state.affected) = 1
    /\ ret.state.affected[1].impactLevel = "high"

\* C6: a target is evaluated against the first edge that reaches it and no
\* other: it has an entry iff that edge passes the floor, the entry's level,
\* chain and flags are that edge's, and a later edge to it adds or changes nothing
C6_FirstEdgeWins ==
    Simulated =>
        LET out == dependents(cachedGraph, call.sourceId) IN
        /\ affectedIds(ret) \subseteq {out[i].to : i \in DOMAIN out}
        /\ \A t \in {out[i].to : i \in DOMAIN out} :
            LET edge == firstEdge(cachedGraph, call.sourceId, t)
                strength == edge.strength * call.disruptionLevel * (100 - edge.redundancy)
                entries == {i \in DOMAIN ret.affectedNodes : ret.affectedNodes[i].node.id = t}
            IN  IF strength >= 50000
                THEN /\ Cardinality(entries) = 1
                     /\ \A i \in entries :
                        /\ ret.affectedNodes[i].impactLevel = categorizeImpact(strength)
                        /\ ret.affectedNodes[i].pathLength = 1
                        /\ ret.affectedNodes[i].dependencyChain = <<call.sourceId, t>>
                        /\ ret.affectedNodes[i].redundancyAvailable = (edge.redundancy > 30)
                        /\ ret.affectedNodes[i].estimatedRecovery = edge.estimatedImpact
                ELSE entries = {}

\* the first edge to a target is below the floor, a later edge to the same
\* target is above it, and the target is not recorded
C6_Witness ==
    /\ Simulated
    /\ ret.kind = "result"
    /\ LET out == dependents(cachedGraph, call.sourceId) IN
       \E i, j \in DOMAIN out :
        /\ i < j
        /\ out[i].to = out[j].to
        /\ \A k \in 1..(i - 1) : out[k].to # out[i].to
        /\ impactStrength(out[i], call.disruptionLevel) < 50000
        /\ impactStrength(out[j], call.disruptionLevel) >= 50000
        /\ out[i].to \notin affectedIds(ret)

\* the cable of scenario C7: A with share 0.6, not redundant, then B with share
\* 0.4, redundant; landing points, if any, in A
TwoCountryCable ==
    /\ UNDERSEA_CABLES # <<>>
    /\ UNDERSEA_CABLES[1].id = "x"
    /\ UNDERSEA_CABLES[1].countriesServed =
            <<[country |-> "A", capacityShare |-> 60, isRedundant |-> FALSE],
              [country |-> "B", capacityShare |-> 40, isRedundant |-> TRUE]>>
    /\ \A i \in DOMAIN UNDERSEA_CABLES[1].landingPoints :
            UNDERSEA_CABLES[1].landingPoints[i].country = "A"
    /\ call.op = "calculateCascade"
    /\ call.sourceId = NodeId("cable", "x")

\* C7: on that cable at disruptionLevel 1.0 the result has exactly two country
\* impacts, A high (0.6) before B low (0.4 * 0.5 = 0.2, which is not > 0.2)
C7_TwoCountryScenario ==
    (TwoCountryCable /\ call.disruptionLevel = 100) =>
        /\ ret.kind = "result"
        /\ ret.countriesAffected =
            <<[country |-> "A", impactLevel |-> "high", affectedCapacity |-> 60],
              [country |-> "B", impactLevel |-> "low", affectedCapacity |-> 40]>>

C7_Witness ==
    /\ TwoCountryCable
    /\ call.disruptionLevel = 100
    /\ Len(ret.affectedNodes) = 2
    /\ Len(ret.countriesAffected) = 2

\* C8: at disruptionLevel 0.5 every edge has exactly half the impactStrength it
\* has at 1.0, and every node affected at 0.5 is affected at 1.0 with the same
\* or a higher level (in the scenario of C7, A is medium and B stays low)
C8_DisruptionScaling ==
    (Simulated /\ call.disruptionLevel = 50) =>
        LET full == calculateCascade(cachedGraph, call.sourceId, 100) IN
        /\ \A j \in DOMAIN cachedGraph.edges :
                2 * impactStrength(cachedGraph.edges[j], 50)
                    = impactStrength(cachedGraph.edges[j], 100)
        /\ \A i \in DOMAIN ret.affectedNodes :
            \E k \in DOMAIN full.affectedNodes :
                /\ full.affectedNodes[k].node.id = ret.affectedNodes[i].node.id
                /\ order(full.affectedNodes[k].impactLevel)
                        <= order(ret.affectedNodes[i].impactLevel)
        /\ TwoCountryCable =>
            <<ret.countriesAffected[1].impactLevel, ret.countriesAffected[2].impactLevel>>
                = <<"medium", "low">>

\* the scenario at 0.5: A, high at 1.0, is medium
C8_Witness ==
    /\ TwoCountryCable
    /\ call.disruptionLevel = 50
    /\ \E i \in DOMAIN ret.affectedNodes :
        /\ ret.affectedNodes[i].node.id = NodeId("country", "A")
        /\ ret.affectedNodes[i].impactLevel = "medium"
    /\ \E k \in DOMAIN calculateCascade(cachedGraph, call.sourceId, 100).affectedNodes :
        /\ calculateCascade(cachedGraph, call.sourceId, 100).affectedNodes[k].node.id
                = NodeId("country", "A")
        /\ calculateCascade(cachedGraph, call.sourceId, 100).affectedNodes[k].impactLevel
                = "high"

\* the impactStrength of the edge of the last step with its redundancy at r
atRedundancy(r) ==
    impactStrength([call.edge EXCEPT !.redundancy = r], call.disruptionLevel)

\* C9 as stated: raising an edge's redundancy, strength and disruptionLevel
\* fixed, never increases its impactStrength
C9_MonotoneAsStated ==
    call.op = "visitEdge" =>
        \A r1, r2 \in Redundancies : r1 < r2 => atRedundancy(r2) <= atRedundancy(r1)

\* C9, amended: the same when strength * disruptionLevel >= 0, as it is for a
\* strength and a disruptionLevel in [0, 1]
C9_MonotoneNonNegative ==
    (call.op = "visitEdge" /\ call.edge.strength * call.disruptionLevel >= 0) =>
        \A r1, r2 \in Redundancies : r1 < r2 => atRedundancy(r2) <= atRedundancy(r1)

\* a step over an edge of redundancy 0.5 that is recorded, and would have a
\* strictly larger impactStrength at redundancy 0
C9_Witness ==
    /\ call.op = "visitEdge"
    /\ call.disruptionLevel > 0
    /\ call.edge.redundancy = 50
    /\ Len(ret.state.affected) = 1
    /\ atRedundancy(50) < atRedundancy(0)

\* C10: at disruptionLevel 0 the result for any existing source has empty
\* affectedNodes and empty countriesAffected
C10_ZeroDisruption ==
    (Simulated /\ call.disruptionLevel = 0) =>
        /\ ret.kind = "result"
        /\ ret.affectedNodes = <<>>
        /\ ret.countriesAffected = <<>>

\* the source has outgoing edges of positive strength
C10_Witness ==
    /\ Simulated
    /\ call.disruptionLevel = 0
    /\ \E i \in DOMAIN dependents(cachedGraph, call.sourceId) :
            dependents(cachedGraph, call.sourceId)[i].strength > 0
    /\ ret.affectedNodes = <<>>

\* position of the affected-node entry of a country in ret.affectedNodes
affectedIndex(code) ==
    CHOOSE i \in DOMAIN ret.affectedNodes :
        ret.affectedNodes[i].node.id = NodeId("country", code)

\* C11: countriesAffected is ordered by severity (critical, high, medium, low)
\* and, among equal severities, by descending affectedCapacity
C11_CountriesSorted ==
    ret.kind = "result" =>
        \A i, j \in DOMAIN ret.countriesAffected :
            i < j =>
                LET a == ret.countriesAffected[i]
                    b == ret.countriesAffected[j]
                IN  /\ order(a.impactLevel) <= order(b.impactLevel)
                    /\ a.impactLevel = b.impactLevel => a.affectedCapacity >= b.affectedCapacity

\* two countries of equal severity were recorded in ascending order of capacity
\* and are reported in descending order
C11_Witness ==
    /\ Simulated
    /\ \E i \in DOMAIN ret.countriesAffected :
        /\ i + 1 \in DOMAIN ret.countriesAffected
        /\ ret.countriesAffected[i].impactLevel = ret.countriesAffected[i + 1].impactLevel
        /\ ret.countriesAffected[i].affectedCapacity
                > ret.countriesAffected[i + 1].affectedCapacity
        /\ affectedIndex(ret.countriesAffected[i].country)
                > affectedIndex(ret.countriesAffected[i + 1].country)

\* the served-country entries of the source cable for a country
servedShares(code) ==
    LET served == findCable(call.sourceId[2]).countriesServed
    IN  {served[i].capacityShare : i \in {k \in DOMAIN served : served[k].country = code}}

\* C12 as stated: for a cable source every reported country's affectedCapacity
\* is a capacity share recorded for it in the cable's served-country list, and
\* for every other source type it is 0.1
C12_CapacityAsStated ==
    (Simulated /\ ret.kind = "result") =>
        \A i \in DOMAIN ret.countriesAffected :
            IF call.sourceId[1] = "cable"
            THEN ret.countriesAffected[i].affectedCapacity
                    \in servedShares(ret.countriesAffected[i].country)
            ELSE ret.countriesAffected[i].affectedCapacity = 10

\* C12, amended: ... the share of the country's first entry in the cable's
\* served-country list, or 0 when the country is not in that list (it was
\* reached through a landing point only); 0.1 for every other source type
C12_CapacityOrZero ==
    (Simulated /\ ret.kind = "result") =>
        \A i \in DOMAIN ret.countriesAffected :
            LET code == ret.countriesAffected[i].country
                capacity == ret.countriesAffected[i].affectedCapacity
                served == findCable(call.sourceId[2]).countriesServed
                entries == {k \in DOMAIN served : served[k].country = code}
            IN  IF call.sourceId[1] # "cable" THEN capacity = 10
                ELSE IF entries = {} THEN capacity = 0
                ELSE \E k \in entries :
                        /\ \A m \in entries : k <= m
                        /\ capacity = served[k].capacityShare

\* a cable source with one country reported at its served share and another,
\* reached through a landing point only, reported at 0
C12_Witness ==
    /\ Simulated
    /\ call.sourceId[1] = "cable"
    /\ \E i, j \in DOMAIN ret.countriesAffected :
        /\ servedShares(ret.countriesAffected[i].country) # {}
        /\ ret.countriesAffected[i].affectedCapacity > 0
        /\ servedShares(ret.countriesAffected[j].country) = {}
        /\ ret.countriesAffected[j].affectedCapacity = 0

\* C13: while the cache is filled and invalidateGraph is not called, every call
\* (buildGraph, simulateCascade, graphStats, in any order) leaves the cached
\* instance in place, buildGraph returns that instance, and the node count,
\* edge count and graphStats stay the same
C13_CachedInstance ==
    [][(cachedGraph # NULL /\ call'.op # "clearGraphCache") =>
            /\ cachedGraph' = cachedGraph
            /\ cachedGraph'.instance = cachedGraph.instance
            /\ call'.op = "buildDependencyGraph" => ret'.graph = cachedGraph
            /\ getGraphStats(cachedGraph') = getGraphStats(cachedGraph)
            /\ call'.op = "getGraphStats" => ret' = getGraphStats(cachedGraph)]_vars

\* buildGraph found the cache filled and returned the one graph constructed so
\* far, after another call had already used it
C13_Witness ==
    /\ call.op = "buildDependencyGraph"
    /\ history.reused
    /\ history.constructions = 1
    /\ ret.graph = cachedGraph
    /\ ret.graph.instance = 1
    /\ ret.graph.edges # <<>>

\* C14: the first call after an invalidateGraph that dropped a graph constructs
\* a new graph, not the dropped instance, with the same nodes and the same edge
\* sequence (hence the same counts); a buildGraph call returns it
C14_RebuildAfterInvalidate ==
    [][(call.op = "clearGraphCache" /\ history.cleared # NULL
            /\ call'.op # "clearGraphCache") =>
            /\ cachedGraph' # NULL
            /\ cachedGraph'.instance # history.cleared.instance
            /\ cachedGraph'.nodes = history.cleared.nodes
            /\ cachedGraph'.edges = history.cleared.edges
            /\ Cardinality(DOMAIN cachedGraph'.nodes)
                    = Cardinality(DOMAIN history.cleared.nodes)
            /\ Len(cachedGraph'.edges) = Len(history.cleared.edges)
            /\ call'.op = "buildDependencyGraph" => ret'.graph = cachedGraph']_vars

\* buildGraph has constructed a second graph after the first was dropped
C14_Witness ==
    /\ call.op = "buildDependencyGraph"
    /\ ~history.reused
    /\ history.cleared # NULL
    /\ history.cleared.edges # <<>>
    /\ ret.graph.instance = history.cleared.instance + 1
    /\ ret.graph.edges = history.cleared.edges

\* the source of the last call is a cable id whose cable is in the dataset
sourceIsCable ==
    /\ call.sourceId[1] = "cable"
    /\ \E i \in DOMAIN UNDERSEA_CABLES : UNDERSEA_CABLES[i].id = call.sourceId[2]

\* the redundancies the last call produced
redundancies ==
    IF call.op = "findRedundancies" THEN ret ELSE ret.redundancies

\* a redundancy list has been produced
Looked ==
    \/ call.op = "findRedundancies"
    \/ call.op = "calculateCascade" /\ ret # NULL

\* C16: findRedundancies returns the empty sequence for a source id that is not
\* a cable id and for a cable id absent from the cable dataset, and the
\* redundancies of a CascadeResult for a non-cable source are empty
C16_NoRedundancies ==
    /\ (call.op = "findRedundancies" /\ ~sourceIsCable) => ret = <<>>
    /\ (call.op = "calculateCascade" /\ ret # NULL /\ call.sourceId[1] # "cable")
            => ret.redundancies = <<>>

\* a pipeline whose raw id is also a cable's, that cable having cables that
\* share a served country with it, was looked up and was simulated
C16_Witness ==
    /\ Looked
    /\ call.sourceId = NodeId("pipeline", "c1")
    /\ redundancies = <<>>
    /\ findRedundancies(NodeId("cable", "c1")) # <<>>

\* the served-country entries of cable i whose country the source cable serves
sharedEntries(i) ==
    LET source == findCable(call.sourceId[2]) IN
    {k \in DOMAIN UNDERSEA_CABLES[i].countriesServed :
        \E j \in DOMAIN source.countriesServed :
            source.countriesServed[j].country = UNDERSEA_CABLES[i].countriesServed[k].country}

\* the cables other than the source that share a served country with it
qualifying ==
    {i \in DOMAIN UNDERSEA_CABLES :
        UNDERSEA_CABLES[i].id # call.sourceId[2] /\ sharedEntries(i) # {}}

\* position of cable i among the qualifying cables
rank(i) == Cardinality({j \in qualifying : j <= i})

RECURSIVE shareSum(_, _)
shareSum(i, entries) ==
    IF entries = {} THEN 0
    ELSE LET k == CHOOSE k \in entries : TRUE
         IN  UNDERSEA_CABLES[i].countriesServed[k].capacityShare + shareSum(i, entries \ {k})

\* C17: for a cable source the candidates are the first five (or fewer)
\* qualifying cables in dataset order, each with the mean of its capacity shares
\* over the shared countries
C17_FirstFiveInOrder ==
    (Looked /\ sourceIsCable) =>
        /\ Len(redundancies) = (IF Cardinality(qualifying) < 5 THEN Cardinality(qualifying) ELSE 5)
        /\ \A i \in qualifying :
                rank(i) <= 5 =>
                    /\ redundancies[rank(i)].id = UNDERSEA_CABLES[i].id
                    /\ redundancies[rank(i)].capacityShare.num * Cardinality(sharedEntries(i))
                         = redundancies[rank(i)].capacityShare.den * shareSum(i, sharedEntries(i))

\* six cables qualify, five are returned, one of them with a mean over two
\* shared countries that is no whole number, and their capacities neither
\* descend nor ascend
C17_Witness ==
    /\ call.op = "findRedundancies"
    /\ sourceIsCable
    /\ Cardinality(qualifying) = 6
    /\ Len(ret) = 5
    /\ \E i \in 1..5 : ret[i].capacityShare.den = 2
    /\ \E i \in 1..4 :
            ret[i].capacityShare.num * ret[i + 1].capacityShare.den
                < ret[i + 1].capacityShare.num * ret[i].capacityShare.den
    /\ \E i \in 1..4 :
            ret[i].capacityShare.num * ret[i + 1].capacityShare.den
                > ret[i + 1].capacityShare.num * ret[i].capacityShare.den

\* C18: both endpoints of every edge of a built graph are keys of its node map
C18_EdgeEndpointsAreNodes ==
    cachedGraph # NULL =>
        \A i \in DOMAIN cachedGraph.edges :
            /\ cachedGraph.edges[i].from \in DOMAIN cachedGraph.nodes
            /\ cachedGraph.edges[i].to \in DOMAIN cachedGraph.nodes

\* buildGraph returned a graph with a landing edge, a cable's serving edge and a
\* pipeline's edge, the landing country being served by no cable
C18_Witness ==
    /\ call.op = "buildDependencyGraph"
    /\ \E i, j, k \in DOMAIN ret.graph.edges :
            /\ ret.graph.edges[i].type = "lands_at"
            /\ ret.graph.edges[j].type = "serves" /\ ret.graph.edges[j].from[1] = "cable"
            /\ ret.graph.edges[k].from[1] = "pipeline"
            /\ \A l \in DOMAIN ret.graph.edges :
                    ret.graph.edges[l].to = ret.graph.edges[i].to
                        => ret.graph.edges[l].type = "lands_at"
                            \/ ret.graph.edges[l].from[1] = "pipeline"
    /\ \A i \in DOMAIN ret.graph.edges :
            {ret.graph.edges[i].from, ret.graph.edges[i].to} \subseteq DOMAIN ret.graph.nodes

\* the real country a label of a dataset record stands for, by the alias table
\* of lines 128 and 190
realCountry(label) == pipelineCountryCode(label)

\* C19: edges that target the same real country, under whichever alias the
\* dataset records name it, end in the same country node
C19_AliasesResolve ==
    cachedGraph # NULL =>
        \A i, j \in DOMAIN cachedGraph.edges :
            realCountry(cachedGraph.edges[i].to[2]) = realCountry(cachedGraph.edges[j].to[2])
                => cachedGraph.edges[i].to = cachedGraph.edges[j].to

\* the country codes the datasets reference: the labels of the cable records as
\* written, the pipeline labels with 'USA' and 'Canada' replaced by their codes
referencedCodes ==
    {c \in {"A", "US", "USA", "CA", "Canada"} :
        \/ \E i \in DOMAIN UNDERSEA_CABLES :
                \/ \E j \in DOMAIN UNDERSEA_CABLES[i].countriesServed :
                        UNDERSEA_CABLES[i].countriesServed[j].country = c
                \/ \E j \in DOMAIN UNDERSEA_CABLES[i].landingPoints :
                        UNDERSEA_CABLES[i].landingPoints[j].country = c
        \/ \E i \in DOMAIN PIPELINES : \E j \in DOMAIN PIPELINES[i].countries :
                \/ PIPELINES[i].countries[j] = c /\ c \notin {"USA", "Canada"}
                \/ PIPELINES[i].countries[j] = "USA" /\ c = "US"
                \/ PIPELINES[i].countries[j] = "Canada" /\ c = "CA"}

\* the node of the given type that the graph holds for a record
hasNode(graph, type, rawId) ==
    /\ NodeId(type, rawId) \in DOMAIN graph.nodes
    /\ graph.nodes[NodeId(type, rawId)].type = type

RECURSIVE concat(_, _)
concat(f, n) == IF n = 0 THEN <<>> ELSE concat(f, n - 1) \o f[n]

\* (from, to, type, strength, redundancy) of an edge
edgeFacts(edge) == <<edge.from, edge.to, edge.type, edge.strength, edge.redundancy>>

\* what the datasets call for: per cable its served entries and then its landing
\* points, then per pipeline its country entries
edgesCalledFor ==
    concat([i \in DOMAIN UNDERSEA_CABLES |->
                [j \in DOMAIN UNDERSEA_CABLES[i].countriesServed |->
                    <<NodeId("cable", UNDERSEA_CABLES[i].id),
                      NodeId("country", UNDERSEA_CABLES[i].countriesServed[j].country),
                      "serves",
                      UNDERSEA_CABLES[i].countriesServed[j].capacityShare,
                      IF UNDERSEA_CABLES[i].countriesServed[j].isRedundant THEN One \div 2 ELSE 0>>]
                \o
                [j \in DOMAIN UNDERSEA_CABLES[i].landingPoints |->
                    <<NodeId("cable", UNDERSEA_CABLES[i].id),
                      NodeId("country", UNDERSEA_CABLES[i].landingPoints[j].country),
                      "lands_at", (3 * One) \div 10, One \div 2>>]],
           Len(UNDERSEA_CABLES))
    \o
    concat([i \in DOMAIN PIPELINES |->
                [j \in DOMAIN PIPELINES[i].countries |->
                    <<NodeId("pipeline", PIPELINES[i].id),
                      NodeId("country", realCountry(PIPELINES[i].countries[j])),
                      "serves", (2 * One) \div 10, (3 * One) \div 10>>]],
           Len(PIPELINES))

\* number of served-country entries, landing points and pipeline country entries
entryCount ==
    LET RECURSIVE total(_, _)
        total(f, n) == IF n = 0 THEN 0 ELSE total(f, n - 1) + f[n]
    IN  total([i \in DOMAIN UNDERSEA_CABLES |->
                    Len(UNDERSEA_CABLES[i].countriesServed) + Len(UNDERSEA_CABLES[i].landingPoints)],
              Len(UNDERSEA_CABLES))
        + total([i \in DOMAIN PIPELINES |-> Len(PIPELINES[i].countries)], Len(PIPELINES))

\* C21: the edges of a built graph are one serves edge per served-country entry
\* (strength the entry's share, redundancy 0.5 if flagged redundant else 0), one
\* lands_at edge per landing point (0.3, 0.5) and one serves edge per pipeline
\* country entry (0.2, 0.3), and their number is the number of those entries
C21_EdgesPerEntry ==
    cachedGraph # NULL =>
        /\ [i \in DOMAIN cachedGraph.edges |-> edgeFacts(cachedGraph.edges[i])] = edgesCalledFor
        /\ Len(cachedGraph.edges) = entryCount

\* a graph was built from two cables, one with a redundant and a plain served
\* entry and a landing point, and a pipeline with two country entries
C21_Witness ==
    /\ cachedGraph # NULL
    /\ Len(UNDERSEA_CABLES) = 2
    /\ Len(UNDERSEA_CABLES[1].countriesServed) = 2
    /\ UNDERSEA_CABLES[1].countriesServed[1].isRedundant
    /\ ~UNDERSEA_CABLES[1].countriesServed[2].isRedundant
    /\ Len(UNDERSEA_CABLES[1].landingPoints) = 1
    /\ Len(PIPELINES) = 1 /\ Len(PIPELINES[1].countries) = 2
    /\ Len(cachedGraph.edges) = 6

\* `graph.incoming.get(nodeId) || []`
incomingOf(graph, nodeId) ==
    IF MapHas(graph.incoming, nodeId) THEN graph.incoming[nodeId] ELSE <<>>

\* sum of the lengths of the lists a map holds
RECURSIVE listLengths(_, _)
listLengths(m, keys) ==
    IF keys = {} THEN 0
    ELSE LET k == CHOOSE k \in keys : TRUE
         IN  Len(m[k]) + listLengths(m, keys \ {k})

\* C22: in a built graph the outgoing list of a node id is the subsequence of
\* edges that leave it and the incoming list the subsequence of edges that
\* enter it, in edges order; the index maps have keys for edge endpoints only
\* and their lists hold as many edges as the graph has
C22_IndexesConsistent ==
    cachedGraph # NULL =>
        /\ \A id \in (DOMAIN cachedGraph.nodes) \cup (DOMAIN cachedGraph.outgoing)
                        \cup (DOMAIN cachedGraph.incoming) :
                /\ dependents(cachedGraph, id)
                        = SelectSeq(cachedGraph.edges, LAMBDA e : e.from = id)
                /\ incomingOf(cachedGraph, id)
                        = SelectSeq(cachedGraph.edges, LAMBDA e : e.to = id)
        /\ listLengths(cachedGraph.outgoing, DOMAIN cachedGraph.outgoing) = Len(cachedGraph.edges)
        /\ listLengths(cachedGraph.incoming, DOMAIN cachedGraph.incoming) = Len(cachedGraph.edges)

\* a built graph in which a cable has three outgoing edges, a country has three
\* incoming edges from three sources, and a node has none of either
C22_Witness ==
    /\ cachedGraph # NULL
    /\ \E id \in DOMAIN cachedGraph.outgoing : Len(cachedGraph.outgoing[id]) = 3
    /\ \E id \in DOMAIN cachedGraph.incoming :
            /\ Len(cachedGraph.incoming[id]) = 3
            /\ Cardinality({cachedGraph.incoming[id][i].from : i \in 1..3}) = 3
    /\ \E id \in DOMAIN cachedGraph.nodes :
            id \notin (DOMAIN cachedGraph.outgoing) \cup (DOMAIN cachedGraph.incoming)

\* C23: the number of graph constructions never exceeds the number of
\* invalidateGraph calls plus one, and simulateCascade and graphStats on a filled
\* cache construct nothing
C23_OneConstructionPerCycle ==
    /\ [](history.constructions <= history.invalidations + 1)
    /\ [][(cachedGraph # NULL /\ call'.op \in {"calculateCascade", "getGraphStats"})
            => history'.constructions = history.constructions]_vars

\* after one invalidation and two constructions, simulateCascade ran on the
\* cached graph and found a source in it
C23_Witness ==
    /\ history.invalidations = 1
    /\ history.constructions = 2
    /\ history.reused
    /\ call.op = "calculateCascade"
    /\ ret # NULL
    /\ cachedGraph.instance = 2

\* C24: simulateCascade on an already built graph leaves the cached graph the
\* same instance with the same nodes, edges, outgoing and incoming
C24_SimulationReadOnly ==
    [][(cachedGraph # NULL /\ call'.op = "calculateCascade") =>
            /\ cachedGraph' # NULL
            /\ cachedGraph'.instance = cachedGraph.instance
            /\ cachedGraph'.nodes = cachedGraph.nodes
            /\ cachedGraph'.edges = cachedGraph.edges
            /\ cachedGraph'.outgoing = cachedGraph.outgoing
            /\ cachedGraph'.incoming = cachedGraph.incoming]_vars

\* simulateCascade ran on the cached graph and reported affected nodes
C24_Witness ==
    /\ call.op = "calculateCascade"
    /\ history.reused
    /\ ret # NULL
    /\ Len(ret.affectedNodes) >= 2
    /\ cachedGraph.instance = history.constructions

\* C25: the propagation loop ends with an empty queue on every graph, cyclic or
\* not; on the way no node id is pushed twice and no queue item has a depth
\* beyond 3 (an item of depth 3 is dequeued without being expanded)
C25_LoopTerminates ==
    /\ <>[](ret.state.queue = <<>>)
    /\ [](/\ \A i, j \in DOMAIN ret.pushed : ret.pushed[i] = ret.pushed[j] => i = j
          /\ ret.pushed[1] = call.sourceId
          /\ \A i \in DOMAIN ret.state.queue : ret.state.queue[i].depth <= 3)

\* the loop has ended on a graph with the cycle n1 -> n2 -> n1 in which a node
\* was reached at depth 3 and has a dependent that was never pushed
C25_Witness ==
    /\ call.op = "propagate"
    /\ ret.state.queue = <<>>
    /\ \E i, j \in DOMAIN cachedGraph.edges :
            /\ cachedGraph.edges[i].from = node(1) /\ cachedGraph.edges[i].to = node(2)
            /\ cachedGraph.edges[j].from = node(2) /\ cachedGraph.edges[j].to = node(1)
    /\ call.sourceId = node(1)
    /\ \E i \in DOMAIN ret.state.affected :
            /\ ret.state.affected[i].pathLength = 3
            /\ \E j \in DOMAIN cachedGraph.edges :
                    /\ cachedGraph.edges[j].from = ret.state.affected[i].node.id
                    /\ cachedGraph.edges[j].strength = One
                    /\ \A k \in DOMAIN ret.pushed : ret.pushed[k] # cachedGraph.edges[j].to

\* C26: the redundancyAvailable flag of an affected node is true exactly when
\* the redundancy of the edge that reached it is above 0.3: false at 0 and at
\* 0.3, true at 0.5
C26_RedundancyFlag ==
    call.op = "visitEdge" =>
        \A i \in DOMAIN ret.state.affected :
            /\ ret.state.affected[i].redundancyAvailable
                    <=> 10 * call.edge.redundancy > 3 * One
            /\ call.edge.redundancy = (3 * One) \div 10
                    => ~ret.state.affected[i].redundancyAvailable
            /\ call.edge.redundancy = One \div 2 => ret.state.affected[i].redundancyAvailable

\* an edge with the redundancy 0.3 and the strength 0.2 of a pipeline edge reached
\* its target, which is flagged as having no redundancy
C26_Witness ==
    /\ call.op = "visitEdge"
    /\ call.edge.redundancy = 30
    /\ call.edge.strength = 20
    /\ call.disruptionLevel = 100
    /\ Len(ret.state.affected) = 1
    /\ ~ret.state.affected[1].redundancyAvailable

\* the pipeline country entries, as (pipeline id, label) in dataset order
pipelineEntries ==
    concat([i \in DOMAIN PIPELINES |->
                [j \in DOMAIN PIPELINES[i].countries |->
                    <<PIPELINES[i].id, PIPELINES[i].countries[j]>>]],
           Len(PIPELINES))

\* the country node a pipeline entry stands for: 'USA' is US, 'Canada' is CA
entryNode(entry) ==
    <<"country", CASE entry[2] = "USA" -> "US" [] entry[2] = "Canada" -> "CA" [] OTHER -> entry[2]>>

\* C27: buildPipelineCountryEdges emits a serves edge for exactly the pipeline
\* country entries whose alias-normalized country node is in the node map, in
\* order; an entry without such a node yields no edge, the entries after it are
\* still handled and the nodes are left as they were
C27_SkipUnregistered ==
    call.op = "buildPipelineCountryEdges" =>
        LET registered == SelectSeq(pipelineEntries,
                                    LAMBDA e : entryNode(e) \in DOMAIN call.graph.nodes)
        IN  /\ ret.kind = "graph"
            /\ ret.graph.nodes = call.graph.nodes
            /\ Len(ret.graph.edges) = Len(registered)
            /\ \A i \in DOMAIN registered :
                    /\ ret.graph.edges[i].from = <<"pipeline", registered[i][1]>>
                    /\ ret.graph.edges[i].to = entryNode(registered[i])
                    /\ ret.graph.edges[i].type = "serves"
            /\ \A i \in DOMAIN ret.graph.edges : ret.graph.edges[i].to \in DOMAIN call.graph.nodes

\* pipeline x names Canada, which has no node, and then A, which has one, and
\* pipeline y names A: the graph gets the two edges to A and none to CA
C27_Witness ==
    /\ call.op = "buildPipelineCountryEdges"
    /\ Len(PIPELINES) = 2
    /\ PIPELINES[1].countries = <<"Canada", "A">>
    /\ <<"country", "CA">> \notin DOMAIN call.graph.nodes
    /\ <<"country", "A">> \in DOMAIN call.graph.nodes
    /\ Len(ret.graph.edges) = 2
    /\ ret.graph.edges[1].from = <<"pipeline", "x">>
    /\ ret.graph.edges[2].from = <<"pipeline", "y">>

\* C28: in a built graph every pipeline country entry has its serves edge: the
\* edges that leave pipeline nodes are, in order, one per entry, to the node of
\* the entry's alias-normalized country
C28_NoPipelineEntrySkipped ==
    cachedGraph # NULL =>
        LET pipelineEdges == SelectSeq(cachedGraph.edges, LAMBDA e : e.from[1] = "pipeline")
        IN  /\ Len(pipelineEdges) = Len(pipelineEntries)
            /\ \A i \in DOMAIN pipelineEntries :
                    /\ pipelineEdges[i].from = <<"pipeline", pipelineEntries[i][1]>>
                    /\ pipelineEdges[i].to = entryNode(pipelineEntries[i])

\* a pipeline through 'USA' and 'US' in a graph whose cables name neither US nor
\* another country of the pipeline: both entries have an edge to country:US
C28_Witness ==
    /\ cachedGraph # NULL
    /\ Len(PIPELINES) = 1
    /\ PIPELINES[1].countries = <<"USA", "US">>
    /\ Len(UNDERSEA_CABLES) = 1
    /\ UNDERSEA_CABLES[1].landingPoints = <<>>
    /\ Len(UNDERSEA_CABLES[1].countriesServed) = 1
    /\ UNDERSEA_CABLES[1].countriesServed[1].country = "A"
    /\ Len(cachedGraph.edges) = 3
    /\ cachedGraph.edges[2].to = <<"country", "US">>
    /\ cachedGraph.edges[3].to = <<"country", "US">>

\* C29: every edge of a built graph goes from a cable or pipeline node to a
\* country node and no country node has an outgoing edge; so every affected node
\* of a CascadeResult is a country at path length 1 with the chain
\* [sourceId, countryId], countriesAffected has as many entries as
\* affectedNodes, and a port, chokepoint or country source affects nothing
C29_OneHop ==
    /\ cachedGraph # NULL =>
        \A i \in DOMAIN cachedGraph.edges :
            /\ cachedGraph.nodes[cachedGraph.edges[i].from].type \in {"cable", "pipeline"}
            /\ cachedGraph.nodes[cachedGraph.edges[i].to].type = "country"
            /\ dependents(cachedGraph, cachedGraph.edges[i].to) = <<>>
    /\ Simulated =>
        /\ \A i \in DOMAIN ret.affectedNodes :
                /\ ret.affectedNodes[i].node.type = "country"
                /\ ret.affectedNodes[i].pathLength = 1
                /\ ret.affectedNodes[i].dependencyChain
                        = <<call.sourceId, ret.affectedNodes[i].node.id>>
        /\ Len(ret.countriesAffected) = Len(ret.affectedNodes)
        /\ cachedGraph.nodes[call.sourceId].type \in {"port", "chokepoint", "country"}
                => ret.affectedNodes = <<>>

\* a cable affected the two countries it serves and the one it lands in
C29_Witness ==
    /\ Simulated
    /\ call.sourceId = NodeId("cable", "x")
    /\ Len(ret.affectedNodes) = 3
    /\ Len(ret.countriesAffected) = 3
    /\ \E i \in DOMAIN cachedGraph.edges : cachedGraph.edges[i].type = "lands_at"
    /\ \A i \in 1..3 : ret.affectedNodes[i].pathLength = 1

\* the served-country entries of the source cable for the country, in list order
servedEntriesFor(code) ==
    SelectSeq(findCable(call.sourceId[2]).countriesServed, LAMBDA cs : cs.country = code)

\* the countries reported by the last simulation
reported == {ret.countriesAffected[i].country : i \in DOMAIN ret.countriesAffected}

\* C30: for a cable source, a reported country that is not in the cable's
\* served-country list (it was reached through a landing point) has
\* affectedCapacity 0, and a served country whose serves edge is below the 0.05
\* floor is not reported, whether or not the cable also lands in it
C30_LandingOnlyAndMaskedCountries ==
    (Simulated /\ call.sourceId[1] = "cable") =>
        /\ \A i \in DOMAIN ret.countriesAffected :
                servedEntriesFor(ret.countriesAffected[i].country) = <<>>
                    => /\ ret.countriesAffected[i].affectedCapacity = 0
                       /\ \E j \in DOMAIN cachedGraph.edges :
                            /\ cachedGraph.edges[j].type = "lands_at"
                            /\ cachedGraph.edges[j].to[2] = ret.countriesAffected[i].country
        /\ \A code \in {"A", "B", "C"} :
                (/\ servedEntriesFor(code) # <<>>
                 /\ servedEntriesFor(code)[1].capacityShare * call.disruptionLevel
                        * (IF servedEntriesFor(code)[1].isRedundant THEN 50 ELSE 100) < 50000)
                    => code \notin reported

\* the cable serves A with a share of 0.05 and lands in A; at disruption 0.5 the
\* serves edge is below the floor, the landing edge (0.075) is not, and A is not
\* reported
C30_Witness ==
    /\ Simulated
    /\ call.sourceId = NodeId("cable", "x")
    /\ call.disruptionLevel = 50
    /\ servedEntriesFor("A") # <<>>
    /\ servedEntriesFor("A")[1].capacityShare = 5
    /\ \E j \in DOMAIN cachedGraph.edges :
            /\ cachedGraph.edges[j].type = "lands_at"
            /\ cachedGraph.edges[j].to = NodeId("country", "A")
            /\ cachedGraph.edges[j].strength * call.disruptionLevel
                    * (100 - cachedGraph.edges[j].redundancy) >= 50000
    /\ "A" \notin reported
    /\ ret.affectedNodes = <<>>

====
